---- MODULE Spec2Model ----
(***************************************************************************)
(* Model of plaso/parsers/sqlite_plugins/mac_notes.py: the Mac Notes       *)
(* SQLite plugin.  MacNotesPlugin.ParseZHTMLSTRINGRow is modelled step by  *)
(* step (one action per statement group), _GetNoteText as an operator on   *)
(* character sequences (lenient parse, body lookup, prettify, re.sub).     *)
(*                                                                         *)
(* Text is a sequence of one-character strings.  An optional value (a      *)
(* Python None or a value) is a sequence of length 0 or 1.                 *)
(***************************************************************************)
EXTENDS Integers, Sequences, FiniteSets, TLC

VARIABLES rows, pc, local, heap, sink, descriptors

vars == <<rows, pc, local, heap, sink, descriptors>>

\* ------------------------------------------------------------------ bounds

\* Rows the query yields in one sequential run.
MaxRows == 2
\* Rows handed to concurrently running invocations.
MaxWorkers == 2
\* Tokens (tags and text runs) of a generated markup string.
MaxTokens == 4

\* ------------------------------------------------------- optional values

None == <<>>
Some(v) == <<v>>
IsNone(o) == o = <<>>
Val(o) == o[1]

\* Python truthiness of an optional number: None and 0 are both false.
Truthy(o) == o # <<>> /\ o[1] # 0

\* ------------------------------------------------------------------ text

LT == "<"
GT == ">"
SL == "/"
NL == "\n"
SP == " "

NameBody == <<"b", "o", "d", "y">>
NameDiv == <<"d", "i", "v">>
NameSpan == <<"s", "p", "a", "n">>
NameB == <<"b">>
NameTable == <<"t", "a", "b", "l", "e">>
NameTr == <<"t", "r">>
NameTd == <<"t", "d">>
NameTbody == <<"t", "b", "o", "d", "y">>
NameP == <<"p">>
NameA == <<"a">>
NameBr == <<"b", "r">>

\* The alternation of the pattern in _GetNoteText, in its order.
StripNames ==
  <<NameDiv, NameBody, NameSpan, NameB, NameTable, NameTr, NameTd, NameTbody, NameP>>

AllowList == {StripNames[j] : j \in 1..Len(StripNames)}

\* Elements the html.parser tree builder closes as soon as they open.
VoidNames == {NameBr}

Max(S) == CHOOSE x \in S : \A y \in S : y <= x
Min(S) == CHOOSE x \in S : \A y \in S : x <= y

\* a occurs in s starting at position j
HasPrefixAt(s, j, a) ==
  /\ j + Len(a) - 1 <= Len(s)
  /\ \A m \in 1..Len(a) : s[j + m - 1] = a[m]

Contains(s, a) == \E j \in 1..(Len(s) + 1) : HasPrefixAt(s, j, a)

\* ----------------------------------------------------- markup and parsing

Open(n) == [k |-> "open", n |-> n]
Close(n) == [k |-> "close", n |-> n]
Text(s) == [k |-> "text", n |-> s]

StartEv(n) == [k |-> "start", n |-> n]
EndEv(n) == [k |-> "end", n |-> n]
EmptyEv(n) == [k |-> "empty", n |-> n]
TextEv(s) == [k |-> "text", n |-> s]

\* BeautifulSoup(markup, features='html.parser'): the tree, as the document
\* order sequence of start, end, empty-element and string events.  stack holds
\* the open elements, innermost first.  An end tag with no open element of its
\* name is dropped; an end tag of an outer element closes the inner ones; the
\* elements still open at the end of input are closed; adjacent character data
\* is one string.  No html or body element is added.
RECURSIVE TreeBuild(_, _)
TreeBuild(toks, stack) ==
  IF toks = <<>>
  THEN [j \in 1..Len(stack) |-> EndEv(stack[j])]
  ELSE LET t == Head(toks)
           rest == Tail(toks)
       IN CASE t.k = "text" ->
                 IF rest # <<>> /\ Head(rest).k = "text"
                 THEN TreeBuild(<<Text(t.n \o Head(rest).n)>> \o Tail(rest), stack)
                 ELSE <<TextEv(t.n)>> \o TreeBuild(rest, stack)
            [] t.k = "open" ->
                 IF t.n \in VoidNames
                 THEN <<EmptyEv(t.n)>> \o TreeBuild(rest, stack)
                 ELSE <<StartEv(t.n)>> \o TreeBuild(rest, <<t.n>> \o stack)
            [] OTHER ->
                 LET open == {j \in 1..Len(stack) : stack[j] = t.n}
                 IN IF open = {}
                    THEN TreeBuild(rest, stack)
                    ELSE [j \in 1..Min(open) |-> EndEv(stack[j])]
                         \o TreeBuild(rest, SubSeq(stack, Min(open) + 1, Len(stack)))

\* Nesting depth after the first j events of ev.
RECURSIVE Depth(_, _)
Depth(ev, j) ==
  IF j = 0 THEN 0
  ELSE Depth(ev, j - 1)
       + (IF ev[j].k = "start" THEN 1 ELSE IF ev[j].k = "end" THEN -1 ELSE 0)

\* soup.body: the first body element of the tree, as the positions of its start
\* and end events; <<>> (None) when the tree has no body element.
SoupBody(ev) ==
  LET starts == {j \in 1..Len(ev) : ev[j] = StartEv(NameBody)}
  IN IF starts = {}
     THEN None
     ELSE LET b == Min(starts)
              e == Min({j \in b..Len(ev) : Depth(ev, j) = Depth(ev, b - 1)})
          IN Some([first |-> b, last |-> e])

RECURSIVE Indent(_)
Indent(d) == IF d <= 0 THEN <<>> ELSE <<SP>> \o Indent(d - 1)

\* Tag.decode with pretty printing: every tag and every string on a line of
\* its own, indented one space per level below the element prettified.
RECURSIVE Decode(_, _)
Decode(ev, d) ==
  IF ev = <<>> THEN <<>>
  ELSE LET e == Head(ev)
       IN CASE e.k = "start" ->
                 Indent(d) \o <<LT>> \o e.n \o <<GT, NL>> \o Decode(Tail(ev), d + 1)
            [] e.k = "end" ->
                 Indent(d - 1) \o <<LT, SL>> \o e.n \o <<GT>>
                 \o (IF Tail(ev) = <<>> THEN <<>> ELSE <<NL>>)
                 \o Decode(Tail(ev), d - 1)
            [] e.k = "empty" ->
                 Indent(d) \o <<LT>> \o e.n \o <<SL, GT, NL>> \o Decode(Tail(ev), d)
            [] OTHER ->
                 Indent(d) \o e.n \o <<NL>> \o Decode(Tail(ev), d)

\* soup.body.prettify(): the closing tag of the element is followed by a line
\* break only when the element has a next sibling.
Prettify(ev, body) ==
  Decode(SubSeq(ev, body.first, body.last), 0)
  \o (IF body.last < Len(ev) /\ ev[body.last + 1].k # "end" THEN <<NL>> ELSE <<>>)

\* ----------------------------------------------------------------- re.sub

\* Position of the line break ending the line that holds position j
\* (Len(s) + 1 when the line is the last one): '.' does not match it.
LineEnd(s, j) == Min({m \in j..(Len(s) + 1) : m = Len(s) + 1 \/ s[m] = NL})

\* Last position of the match of
\*   (<\/?(div|body|span|b|table|tr|td|tbody|p).*>\n?)
\* that starts at position j of s, 0 when there is none.  The name is matched
\* as a prefix of what follows '<' or '</'; '.*' is greedy, so the match runs to
\* the last '>' of the line, and takes the line break after it when there is one.
MatchEnd(s, j) ==
  IF s[j] # LT THEN 0
  ELSE LET n == IF j + 1 <= Len(s) /\ s[j + 1] = SL THEN j + 2 ELSE j + 1
           ends == {m \in n..(LineEnd(s, j) - 1) :
                      /\ s[m] = GT
                      /\ \E a \in 1..Len(StripNames) :
                           /\ HasPrefixAt(s, n, StripNames[a])
                           /\ n + Len(StripNames[a]) <= m}
       IN IF ends = {} THEN 0
          ELSE IF Max(ends) + 1 <= Len(s) /\ s[Max(ends) + 1] = NL
               THEN Max(ends) + 1
               ELSE Max(ends)

\* re.sub(pattern, '', s): the leftmost non-overlapping matches removed.
RECURSIVE ReSub(_, _)
ReSub(s, j) ==
  IF j > Len(s) THEN <<>>
  ELSE IF MatchEnd(s, j) > 0
       THEN ReSub(s, MatchEnd(s, j) + 1)
       ELSE <<s[j]>> \o ReSub(s, j + 1)

\* ------------------------------------------------------------ _GetNoteText

Returned(v) == [exc |-> "", val |-> v]
Raised(e) == [exc |-> e, val |-> <<>>]

\* MacNotesPlugin._GetNoteText.  BeautifulSoup(None) fails on len(markup);
\* soup.body is None when the tree has no body element, and None has no
\* prettify.
GetNoteText(zhtmlstring) ==
  IF IsNone(zhtmlstring) THEN Raised("TypeError")
  ELSE LET soup == TreeBuild(Val(zhtmlstring), <<>>)
           body == SoupBody(soup)
       IN IF IsNone(body) THEN Raised("AttributeError")
          ELSE Returned(ReSub(Prettify(soup, Val(body)), 1))

\* ------------------------------------------------------- plugin constants

TIME_DESCRIPTION_CREATION == "CREATION"
TIME_DESCRIPTION_LAST_USED == "LAST_USED"

\* Seconds from the Unix epoch to 2001-01-01T00:00:00, the Cocoa epoch.
CocoaEpoch == 978307200

\* MacNotesPlugin.QUERIES, REQUIRED_TABLES and SCHEMAS (the table names).
Descriptors ==
  [QUERIES |-> <<<<"SELECT zhtmlstring, timestamp, last_modified_time, title",
                  "ParseZHTMLSTRINGRow">>>>,
   REQUIRED_TABLES |-> {"ZNOTEBODY", "ZNOTE"},
   SCHEMAS |-> {"ZACCOUNT", "ZATTACHMENT", "ZFOLDER", "ZNOTE", "ZNOTEBODY",
                "ZOFFLINEACTION", "Z_METADATA", "Z_MODELCACHE", "Z_PRIMARYKEY"}]

\* MacNotesZhtmlstringEventData.__init__
MacNotesZhtmlstringEventData == [title |-> None, note_text |-> None, zhtmlstring |-> None]

\* ------------------------------------------------------------------ inputs

Milk == <<"M", "i", "l", "k">>

\* <p>Milk</p>: markup with no body element.
MarkupNoBody == <<Open(NameP), Text(Milk), Close(NameP)>>
\* <body><p>Milk</p></body>
MarkupBody == <<Open(NameBody), Open(NameP), Text(Milk), Close(NameP), Close(NameBody)>>

Titles == {None, Some("Shopping")}
\* Cocoa timestamps of a column: absent, the epoch itself, a day after it.
Stamps == {None, Some(0), Some(86400)}
\* Creation timestamps of the rows of a sequential run.
CreationStamps == {None, Some(0)}
RowMarkups == {None, Some(MarkupNoBody), Some(MarkupBody)}

\* The rows the query can yield: each column a value or absent.
RowDomain ==
  [title : Titles, zhtmlstring : RowMarkups, timestamp : CreationStamps,
   last_modified_time : Stamps]

\* Rows of concurrently running invocations.
WorkerRows ==
  [title : Titles, zhtmlstring : {None, Some(MarkupBody)},
   timestamp : {Some(86400)}, last_modified_time : {None, Some(86400)}]

TokenAlphabet ==
  {Open(NameBody), Close(NameBody), Open(NameP), Close(NameP), Open(NameA),
   Close(NameA), Open(NameBr), Text(<<"M">>)}

\* Every markup string of at most MaxTokens tags and text runs.
Markups == UNION {[1..n -> TokenAlphabet] : n \in 0..MaxTokens}

MarkupRows ==
  [title : {None}, zhtmlstring : {None} \cup {Some(m) : m \in Markups},
   timestamp : {Some(0)}, last_modified_time : {None, Some(86400)}]

\* ------------------------------------------------------------ collaborators

\* SQLitePlugin._GetRowValue: the value of a named column, or None.
GetRowValue(row, name) == row[name]

\* dfdatetime CocoaTime and DateTimeValuesEvent: the instant of a Cocoa
\* timestamp (seconds since the Unix epoch), with its description.
CocoaTime(timestamp) ==
  IF IsNone(timestamp) THEN None ELSE Some(Val(timestamp) + CocoaEpoch)

DateTimeValuesEvent(date_time, description) ==
  [timestamp |-> date_time, timestamp_desc |-> description]

\* parser_mediator.ProduceEventWithEventData: the sink takes the pair.  by is
\* the invocation that made the call (not a field of the program's data).
ProduceEventWithEventData(i, event, event_data) ==
  sink' = Append(sink, [event |-> event, event_data |-> event_data, by |-> i])

\* ------------------------------------------------------------------- state

Init ==
  /\ rows = <<>>
  /\ pc = <<>>
  /\ local = <<>>
  /\ heap = <<>>
  /\ sink = <<>>
  /\ descriptors = Descriptors

Finished(i) == pc[i] \in {"Done", "Raised"}

\* A single event data object kept by the plugin and reused by every call.
NewEventDataShared(i) == 1

\* The object event_data = MacNotesZhtmlstringEventData() makes in
\* invocation i: a new one in every invocation.
NewEventData(i) == i

\* ParseZHTMLSTRINGRow is entered with a row (lines 132-133).
Invoke(row) ==
  LET i == Len(rows) + 1
  IN /\ rows' = Append(rows, row)
     /\ pc' = Append(pc, "Start")
     /\ local' = Append(local, [event_data |-> NewEventData(i), exc |-> ""])
     /\ heap' = (NewEventData(i) :> MacNotesZhtmlstringEventData) @@ heap
     /\ UNCHANGED <<sink, descriptors>>

\* The query loop hands the next row to the callback once the previous call
\* has ended; a row whose call failed is skipped.
FetchRow ==
  /\ Len(rows) < MaxRows
  /\ \A i \in 1..Len(rows) : Finished(i)
  /\ \E row \in RowDomain : Invoke(row)

\* Rows handed to invocations that run side by side.
DispatchRow ==
  /\ Len(rows) < MaxWorkers
  /\ \E row \in WorkerRows : Invoke(row)

\* One row whose markup is any generated markup string.
FetchMarkupRow ==
  /\ rows = <<>>
  /\ \E row \in MarkupRows : Invoke(row)

\* The title is read but never stored on the event data.
ExtractTitleDropped(i) ==
  /\ pc[i] = "Start"
  /\ pc' = [pc EXCEPT ![i] = "TitleExtracted"]
  /\ UNCHANGED <<rows, local, heap, sink, descriptors>>

\* Lines 135-136.
ExtractTitle(i) ==
  /\ pc[i] = "Start"
  /\ heap' = [heap EXCEPT ![local[i].event_data].title = GetRowValue(rows[i], "title")]
  /\ pc' = [pc EXCEPT ![i] = "TitleExtracted"]
  /\ UNCHANGED <<rows, local, sink, descriptors>>

\* Lines 138-142: the markup is stored, then sanitized; an exception of
\* _GetNoteText leaves the method.
SanitizeMarkup(i) ==
  LET zhtmlstring == GetRowValue(rows[i], "zhtmlstring")
      note_text == GetNoteText(zhtmlstring)
      ref == local[i].event_data
  IN /\ pc[i] = "TitleExtracted"
     /\ IF note_text.exc # ""
        THEN /\ heap' = [heap EXCEPT ![ref].zhtmlstring = zhtmlstring]
             /\ pc' = [pc EXCEPT ![i] = "Raised"]
             /\ local' = [local EXCEPT ![i].exc = note_text.exc]
        ELSE /\ heap' = [heap EXCEPT ![ref].zhtmlstring = zhtmlstring,
                                     ![ref].note_text = Some(note_text.val)]
             /\ pc' = [pc EXCEPT ![i] = "MarkupSanitized"]
             /\ UNCHANGED local
     /\ UNCHANGED <<rows, sink, descriptors>>

\* The creation event produced before the markup is read and sanitized.
EmitCreationEarly(i) ==
  LET create_event ==
        DateTimeValuesEvent(CocoaTime(GetRowValue(rows[i], "timestamp")),
                            TIME_DESCRIPTION_CREATION)
  IN /\ pc[i] = "TitleExtracted"
     /\ ProduceEventWithEventData(i, create_event, local[i].event_data)
     /\ pc' = [pc EXCEPT ![i] = "CreationEmitted"]
     /\ UNCHANGED <<rows, local, heap, descriptors>>

\* Lines 144-149.
EmitCreation(i) ==
  LET create_timestamp == GetRowValue(rows[i], "timestamp")
      create_event ==
        DateTimeValuesEvent(CocoaTime(create_timestamp), TIME_DESCRIPTION_CREATION)
  IN /\ pc[i] = "MarkupSanitized"
     /\ ProduceEventWithEventData(i, create_event, local[i].event_data)
     /\ pc' = [pc EXCEPT ![i] = "CreationEmitted"]
     /\ UNCHANGED <<rows, local, heap, descriptors>>

\* Lines 151-158, when "if modified_timestamp:" is taken.
EmitModified(i) ==
  LET modified_timestamp == GetRowValue(rows[i], "last_modified_time")
      modified_event ==
        DateTimeValuesEvent(CocoaTime(modified_timestamp), TIME_DESCRIPTION_LAST_USED)
  IN /\ pc[i] = "CreationEmitted"
     /\ Truthy(modified_timestamp)
     /\ ProduceEventWithEventData(i, modified_event, local[i].event_data)
     /\ pc' = [pc EXCEPT ![i] = "ModifiedEmitted"]
     /\ UNCHANGED <<rows, local, heap, descriptors>>

\* The method returns: after line 158, or at line 153 when
\* "if modified_timestamp:" is not taken.
Return(i) ==
  /\ \/ pc[i] = "ModifiedEmitted"
     \/ /\ pc[i] = "CreationEmitted"
        /\ ~Truthy(GetRowValue(rows[i], "last_modified_time"))
  /\ pc' = [pc EXCEPT ![i] = "Done"]
  /\ UNCHANGED <<rows, local, heap, sink, descriptors>>

Next ==
  \/ FetchRow
  \/ \E i \in 1..Len(rows) : ExtractTitle(i)
  \/ \E i \in 1..Len(rows) : SanitizeMarkup(i)
  \/ \E i \in 1..Len(rows) : EmitCreation(i)
  \/ \E i \in 1..Len(rows) : EmitModified(i)
  \/ \E i \in 1..Len(rows) : Return(i)

NextWorkers ==
  \/ DispatchRow
  \/ \E i \in 1..Len(rows) : ExtractTitle(i)
  \/ \E i \in 1..Len(rows) : SanitizeMarkup(i)
  \/ \E i \in 1..Len(rows) : EmitCreation(i)
  \/ \E i \in 1..Len(rows) : EmitModified(i)
  \/ \E i \in 1..Len(rows) : Return(i)

NextMarkup ==
  \/ FetchMarkupRow
  \/ \E i \in 1..Len(rows) : ExtractTitle(i)
  \/ \E i \in 1..Len(rows) : SanitizeMarkup(i)
  \/ \E i \in 1..Len(rows) : EmitCreation(i)
  \/ \E i \in 1..Len(rows) : EmitModified(i)
  \/ \E i \in 1..Len(rows) : Return(i)

\* Rows processed one after another, as the query loop does.
Spec == Init /\ [][Next]_vars

\* Rows processed by invocations whose steps interleave.
SpecWorkers == Init /\ [][NextWorkers]_vars

\* One row, its markup drawn from Markups.
SpecMarkup == Init /\ [][NextMarkup]_vars

\* ---------------------------------------------------------------- outcomes

\* What one call of ParseZHTMLSTRINGRow on row, run alone from entry to
\* return, leaves behind: the event data and the events handed to the sink.
RowOutcome(row) ==
  LET note_text == GetNoteText(row.zhtmlstring)
      created ==
        DateTimeValuesEvent(CocoaTime(row.timestamp), TIME_DESCRIPTION_CREATION)
      modified ==
        DateTimeValuesEvent(CocoaTime(row.last_modified_time),
                            TIME_DESCRIPTION_LAST_USED)
  IN IF note_text.exc # ""
     THEN [record |-> [title |-> row.title, note_text |-> None,
                       zhtmlstring |-> row.zhtmlstring],
           events |-> <<>>]
     ELSE [record |-> [title |-> row.title, note_text |-> Some(note_text.val),
                       zhtmlstring |-> row.zhtmlstring],
           events |-> IF Truthy(row.last_modified_time)
                      THEN <<created, modified>>
                      ELSE <<created>>]

\* The sink entries invocation i produced, in the order the sink took them.
EntriesOf(i) ==
  LET ByI(e) == e.by = i
  IN SelectSeq(sink, ByI)

EventsOf(i) == [j \in 1..Len(EntriesOf(i)) |-> EntriesOf(i)[j].event]

Kinds(i) == [j \in 1..Len(EntriesOf(i)) |-> EntriesOf(i)[j].event.timestamp_desc]

Invocations == 1..Len(rows)

\* The strings and the element names of a markup string, as parsed.
ParsedOf(o) == IF IsNone(o) THEN <<>> ELSE TreeBuild(Val(o), <<>>)

TagNames(ev) == {ev[j].n : j \in {m \in 1..Len(ev) : ev[m].k # "text"}}

Strings(ev) == {ev[j].n : j \in {m \in 1..Len(ev) : ev[m].k = "text"}}

OpenMarker(n) == <<LT>> \o n \o <<GT>>
CloseMarker(n) == <<LT, SL>> \o n \o <<GT>>
EmptyMarker(n) == <<LT>> \o n \o <<SL, GT>>

\* The events of the body element of a parsed markup string (none without one).
BodyEvents(ev) ==
  IF IsNone(SoupBody(ev)) THEN <<>>
  ELSE SubSeq(ev, Val(SoupBody(ev)).first, Val(SoupBody(ev)).last)

Sanitized(i) == pc[i] \notin {"Start", "TitleExtracted"}

\* ------------------------------------------------------------------ claims

\* C1: a row with a creation timestamp (zero included) that is processed to the
\* end yields exactly the CREATION event when last_modified_time is absent, and
\* exactly CREATION then LAST_MODIFIED when last_modified_time is present.
C1_CreationThenLastModified ==
  \A i \in Invocations :
    (pc[i] = "Done" /\ ~IsNone(rows[i].timestamp)) =>
      Kinds(i) = IF IsNone(rows[i].last_modified_time)
                 THEN <<"CREATION">>
                 ELSE <<"CREATION", "LAST_MODIFIED">>

\* C2: the second emission is skipped exactly when last_modified_time is
\* absent: a row with a creation timestamp that is processed to the end has a
\* second event if and only if its last_modified_time is a value, zero included.
C2_SkippedExactlyWhenAbsent ==
  \A i \in Invocations :
    (pc[i] = "Done" /\ ~IsNone(rows[i].timestamp)) =>
      (Len(EntriesOf(i)) = 2 <=> ~IsNone(rows[i].last_modified_time))

\* C3: row isolation: a row whose markup or creation timestamp is absent
\* contributes no event to the sink, and every other row that has ended has
\* contributed its own events.
C3_RowIsolation ==
  \A i \in Invocations :
    Finished(i) =>
      IF IsNone(rows[i].zhtmlstring) \/ IsNone(rows[i].timestamp)
      THEN EntriesOf(i) = <<>>
      ELSE EventsOf(i) = RowOutcome(rows[i]).events

\* C4: _GetNoteText is total: it returns a string for every input and never
\* raises, and for the empty string and for null the string is empty.
C4_SanitizerTotal ==
  \A i \in Invocations :
    Sanitized(i) =>
      /\ pc[i] # "Raised"
      /\ (IsNone(rows[i].zhtmlstring) \/ rows[i].zhtmlstring = Some(<<>>)) =>
           heap[local[i].event_data].note_text = Some(<<>>)

\* C5: whenever _GetNoteText returns, the markers of every element of the body
\* whose name is not in the allow-list (names that only begin with an
\* allow-list name included) are still in the returned text.
C5_NonStrippedPreserved ==
  \A i \in Invocations :
    (Sanitized(i) /\ pc[i] # "Raised") =>
      LET body == BodyEvents(ParsedOf(rows[i].zhtmlstring))
          out == Val(heap[local[i].event_data].note_text)
      IN \A j \in 1..Len(body) :
           (body[j].k # "text" /\ body[j].n \notin AllowList) =>
             CASE body[j].k = "start" -> Contains(out, OpenMarker(body[j].n))
               [] body[j].k = "end" -> Contains(out, CloseMarker(body[j].n))
               [] OTHER -> Contains(out, EmptyMarker(body[j].n))

\* C6: for every markup string whose tags all come from the allow-list,
\* _GetNoteText returns a text that holds no opening or closing marker of an
\* allow-list tag and holds every string enclosed in the markup.
C6_AllowListStripped ==
  \A i \in Invocations :
    (/\ Sanitized(i)
     /\ ~IsNone(rows[i].zhtmlstring)
     /\ TagNames(ParsedOf(rows[i].zhtmlstring)) \subseteq AllowList
     /\ TagNames(ParsedOf(rows[i].zhtmlstring)) # {}) =>
      /\ pc[i] # "Raised"
      /\ LET out == Val(heap[local[i].event_data].note_text)
         IN /\ \A n \in AllowList :
                 /\ ~Contains(out, OpenMarker(n))
                 /\ ~Contains(out, CloseMarker(n))
            /\ \A t \in Strings(BodyEvents(ParsedOf(rows[i].zhtmlstring))) :
                 Contains(out, t)

\* C7: every event that a row with a creation timestamp hands to the sink has
\* kind CREATION or LAST_MODIFIED.
C7_KindsCreationOrLastModified ==
  \A i \in Invocations :
    ~IsNone(rows[i].timestamp) =>
      \A j \in 1..Len(EntriesOf(i)) : Kinds(i)[j] \in {"CREATION", "LAST_MODIFIED"}

\* C8: for every row processed to the end, one event data object is made, one
\* or two events are handed to the sink, each paired with that object, whose
\* zhtmlstring is the row's markup, whose title is the row's title and whose
\* note_text is _GetNoteText of that zhtmlstring.
C8_OneRecordPerRow ==
  /\ \A i, j \in Invocations : i # j => local[i].event_data # local[j].event_data
  /\ DOMAIN heap = {local[i].event_data : i \in Invocations}
  /\ \A i \in Invocations :
       pc[i] = "Done" =>
         LET record == heap[local[i].event_data]
         IN /\ Len(EntriesOf(i)) \in {1, 2}
            /\ \A j \in 1..Len(EntriesOf(i)) :
                 EntriesOf(i)[j].event_data = local[i].event_data
            /\ record.zhtmlstring = rows[i].zhtmlstring
            /\ record.title = rows[i].title
            /\ record.note_text = Some(GetNoteText(record.zhtmlstring).val)

C8_Witness ==
  \E i, j \in Invocations :
    /\ pc[i] = "Done" /\ pc[j] = "Done"
    /\ Len(EntriesOf(i)) = 2 /\ Len(EntriesOf(j)) = 1
    /\ rows[i].title = Some("Shopping") /\ IsNone(rows[j].title)

\* C9: under any interleaving of the invocations' steps, the event data and
\* the events of a row that has returned are those of the same call run alone,
\* a row whose call raised has no event, no two invocations use the same event
\* data object, and QUERIES, REQUIRED_TABLES and SCHEMAS are as declared.
C9_RowIndependence ==
  /\ descriptors = Descriptors
  /\ \A i, j \in Invocations : i # j => local[i].event_data # local[j].event_data
  /\ \A i \in Invocations :
       /\ pc[i] = "Done" =>
            /\ heap[local[i].event_data] = RowOutcome(rows[i]).record
            /\ EventsOf(i) = RowOutcome(rows[i]).events
       /\ pc[i] = "Raised" =>
            /\ RowOutcome(rows[i]).events = <<>>
            /\ EventsOf(i) = <<>>

\* Two invocations that both returned, the events of one handed to the sink
\* between the events of the other.
C9_Witness ==
  /\ Len(rows) >= 2
  /\ pc[1] = "Done" /\ pc[2] = "Done"
  /\ Len(sink) >= 3
  /\ sink[1].by = 1 /\ sink[2].by = 2 /\ sink[3].by = 1
  /\ rows[1] # rows[2]

\* The steps of one call, in the order of the code.
RowTransitions ==
  {<<"Start", "TitleExtracted">>, <<"TitleExtracted", "MarkupSanitized">>,
   <<"TitleExtracted", "Raised">>, <<"MarkupSanitized", "CreationEmitted">>,
   <<"CreationEmitted", "ModifiedEmitted">>, <<"CreationEmitted", "Done">>,
   <<"ModifiedEmitted", "Done">>}

RowStepOrder ==
  /\ Len(pc') >= Len(pc)
  /\ \A i \in 1..Len(pc') :
       IF i <= Len(pc)
       THEN pc'[i] = pc[i] \/ <<pc[i], pc'[i]>> \in RowTransitions
       ELSE pc'[i] = "Start"

RowEventsFollowState ==
  /\ \A i \in Invocations :
       /\ pc[i] \in {"Start", "TitleExtracted", "MarkupSanitized", "Raised"} =>
            EntriesOf(i) = <<>>
       /\ pc[i] = "CreationEmitted" => Len(EntriesOf(i)) = 1
       /\ pc[i] = "ModifiedEmitted" => Len(EntriesOf(i)) = 2
       /\ pc[i] = "Done" => Len(EntriesOf(i)) \in {1, 2}
       /\ EntriesOf(i) # <<>> =>
            /\ ~IsNone(heap[local[i].event_data].note_text)
            /\ Kinds(i)[1] = TIME_DESCRIPTION_CREATION
            /\ \A j \in 2..Len(EntriesOf(i)) : Kinds(i)[j] # TIME_DESCRIPTION_CREATION

\* C10: a call moves through Start, TitleExtracted, MarkupSanitized,
\* CreationEmitted, optionally ModifiedEmitted, Done in that order, no step
\* repeated; a failure of the sanitizer ends it; no event of a row is in the
\* sink before the row's markup is sanitized, and the event of
\* last_modified_time is never in the sink without the row's CREATION event
\* before it.
C10_RowStateMachine == [][RowStepOrder]_vars /\ []RowEventsFollowState

C10_Witness ==
  \E i, j \in Invocations :
    /\ pc[i] = "Done" /\ Len(EntriesOf(i)) = 2
    /\ pc[j] = "Raised" /\ EntriesOf(j) = <<>>

\* ------------------------------------------------------------------ lemmas

\* Whenever _GetNoteText returns, the markers of the anchor elements of the
\* body are in the returned text.
AnchorsKept ==
  \A i \in Invocations :
    (Sanitized(i) /\ pc[i] # "Raised") =>
      LET body == BodyEvents(ParsedOf(rows[i].zhtmlstring))
          out == Val(heap[local[i].event_data].note_text)
      IN \A j \in 1..Len(body) :
           /\ body[j] = StartEv(NameA) => Contains(out, OpenMarker(NameA))
           /\ body[j] = EndEv(NameA) => Contains(out, CloseMarker(NameA))

\* Whenever _GetNoteText returns, the returned text holds no marker of an
\* allow-list tag, nor of an element whose name begins with one, and holds
\* every string of the body.
StrippedWhenReturned ==
  \A i \in Invocations :
    (Sanitized(i) /\ pc[i] # "Raised") =>
      LET out == Val(heap[local[i].event_data].note_text)
      IN /\ \A n \in AllowList \cup {NameBr} :
              /\ ~Contains(out, OpenMarker(n))
              /\ ~Contains(out, CloseMarker(n))
              /\ ~Contains(out, EmptyMarker(n))
         /\ \A t \in Strings(BodyEvents(ParsedOf(rows[i].zhtmlstring))) :
              Contains(out, t)

\* Rows processed one after another end as RowOutcome says.
SequentialOutcome ==
  \A i \in Invocations :
    Finished(i) =>
      /\ heap[local[i].event_data] = RowOutcome(rows[i]).record
      /\ EventsOf(i) = RowOutcome(rows[i]).events

====
